---- MODULE Spec2Model ----
(***************************************************************************)
(* Model of platform_management/cli/insert_services.py: the batch          *)
(* orchestrator add_objects with its row matcher, insert_object and        *)
(* update_object, run against one database connection whose transaction    *)
(* (working state, committed state, savepoint previous_object) is explicit.*)
(*                                                                         *)
(* Abstractions.  A geometry is the place (an element of Points) it lies   *)
(* at: two geometries intersect, cover one another or are closer than      *)
(* 0.0001 degrees exactly when they lie at the same place, and the         *)
(* municipality and administrative unit are functions of the place.  A     *)
(* string address is a sequence of tokens.  `LIMIT 1` without ORDER BY     *)
(* returns any one of the qualifying rows.  A KeyboardInterrupt may be     *)
(* raised at every position of the loop.                                   *)
(***************************************************************************)
EXTENDS Integers, Sequences, FiniteSets, TLC

VARIABLES
    cfg,            \* the arguments of add_objects (fixed during a batch)
    objects,        \* the rows of the input table read so far
    results,        \* results[r]: outcome of row r (1-based; code index r-1)
    functional_ids, \* functional_ids[r]
    cnt,            \* present, added_to_address, added_to_geom, added_as_points, skipped
    i,              \* the loop variable of add_objects (0-based)
    pc,             \* position of add_objects
    loc,            \* locals of the row in progress: phys_id, name, res[0], address
    tx,             \* the connection: working db, committed db, savepoint
    seqs,           \* the id sequences of physical_objects and functional_objects
    run,            \* number of the current call of add_objects on this connection
    prev,           \* what the previous call returned (for comparing two runs)
    k,              \* history: rows completely processed by this call
    hist,           \* history: db at the start of the call, the user's choice, how the
                    \* call ended, the exception that left it
    stored,         \* the row of functional_objects that insert_object and
                    \* update_object are followed on, column by column
    call            \* history: the last of these calls, its row and what it met

vars == <<cfg, objects, results, functional_ids, cnt, i, pc, loc, tx, seqs, run, prev, k, hist,
          stored, call>>

---------------------------------------------------------------------------
(* Bounds *)

\* objects.shape[0], the number of rows of the input table
NRows == 2
\* the places a geometry or a pair of coordinates may lie at
Points == {1, 2}
\* the values of log_n
LogNs == {1, 2}
\* the calls of add_objects on one connection
Runs == {1, 2}

---------------------------------------------------------------------------
(* The database at the start *)

NULLADDR == <<"NULL">>

\* a physical object; the geometry stored at the start is a bare point
Phys(id, city, build, address, at) ==
    [id |-> id, city |-> city, build |-> build, address |-> address, at |-> at, new |-> FALSE,
     geometry |-> "ST_Point"]

FO(id, phys, st, name, updated_at) ==
    [id |-> id, phys |-> phys, st |-> st, name |-> name, updated_at |-> updated_at]

InitPhys ==
    { Phys(1, 1, FALSE, NULLADDR, 1),
      Phys(2, 1, FALSE, NULLADDR, 1),
      Phys(3, 1, TRUE, <<"n1">>, 1),
      Phys(4, 1, TRUE, <<"n2">>, 1),
      Phys(5, 2, FALSE, NULLADDR, 2) }

InitFOs == { FO(1, 1, 1, "a", 0), FO(2, 3, 2, "a", 0), FO(3, 2, 3, "a", 0) }

InitDB == [phys |-> InitPhys, fos |-> InitFOs, dirty |-> {}]

\* a lookup that returns the first city whatever the name
MutCityIdAny(city_name) == 1

\* SELECT id FROM cities WHERE name = %s
CityId(city_name) == IF city_name = "c1" THEN 1 ELSE IF city_name = "c2" THEN 2 ELSE 0

\* SELECT id, is_building FROM city_service_types WHERE name = %s or code = %s
ServiceType(service_type) ==
    IF service_type = "s1" THEN [id |-> 1, is_building |-> FALSE]
    ELSE IF service_type = "s2" THEN [id |-> 2, is_building |-> TRUE]
    ELSE IF service_type = "s3" THEN [id |-> 3, is_building |-> FALSE]
    ELSE [id |-> 0, is_building |-> FALSE]

\* lines 175-183: the service type joined with its city function and its
\* infrastructure type yields a row; service type 3 has no such chain
ChainResolved(service_type_id) == service_type_id \in {1, 2}

---------------------------------------------------------------------------
(* Inputs.  A row lies at place pt; pt = 0 stands for a latitude/longitude *)
(* that is no number or is missing, or for a geometry that is no valid     *)
(* GeoJSON.                                                                *)

Prefix == <<"P">>
LongPrefix == <<"P", "R">>

\* what ST_GeometryType says of a geometry
GeomTypes == {"ST_Point", "ST_Polygon"}

\* the cell that holds None
None == "None"

\* the cell of a column the table does not have
Absent == "Absent"

Names == {"a", "", None, Absent}
Addrs == { <<"P", "n1">>, <<"Q", "n1">>, <<"P", "R", "n1">> }

\* The rows a table may hold under arguments c.  Values the code never reads
\* are not varied: the address of a row is read for a building-based service
\* type only (line 445), the name only once the coordinates are parsed.
Rows(c) ==
    { r \in [pt : Points \cup {0}, name : Names, addr : Addrs \cup {NULLADDR}, geom : GeomTypes] :
        /\ r.geom # "ST_Point" => c.polygons /\ r.pt # 0
        /\ (r.name = Absent) = ~c.nameCol
        /\ r.name = None => c.nulls
        /\ (r.addr = NULLADDR) = ~c.addrCol
        /\ ~ServiceType(c.service_type).is_building => r.addr \in {NULLADDR, <<"P", "n1">>}
        /\ r.pt = 0 => r.name \in {"a", Absent}
        /\ (~c.geomCol /\ ~c.llCol) => r.pt = 0 }

\* The arguments of add_objects and the columns of the table: geomCol, addrCol
\* and llCol say whether the geometry column, the address column and both the
\* latitude and the longitude column are in the table; polygons says whether
\* the geometry column holds geometries that are no points, nameCol whether
\* the name column is in the table and nulls whether it holds None cells.
\* The prefixes are read
\* only when the address column is read, log_n only decides commits in commit
\* mode, the coordinate columns are read only without a geometry column.
Configs ==
    { c \in [ commit : BOOLEAN, log_n : LogNs, city_name : {"c1", "cx"},
              service_type : {"s1", "s2", "s3", "sx"}, geomCol : BOOLEAN,
              llCol : BOOLEAN, addrCol : BOOLEAN,
              address_prefixes : {<<>>, <<Prefix>>, <<Prefix, LongPrefix>>},
              polygons : BOOLEAN, nameCol : BOOLEAN, nulls : BOOLEAN ] :
        /\ c.nulls => c.nameCol
        /\ (c.nulls \/ ~c.nameCol) => /\ ~c.polygons /\ ~c.addrCol /\ c.log_n = 1
                                      /\ c.city_name = "c1" /\ c.service_type \in {"s1", "s2"}
        /\ c.polygons => /\ c.geomCol /\ ~c.addrCol /\ c.log_n = 1
                          /\ c.city_name = "c1" /\ c.service_type \in {"s1", "s2"}
        /\ ~(c.addrCol /\ ServiceType(c.service_type).is_building) => c.address_prefixes = <<Prefix>>
        /\ ~c.commit => c.log_n = 1
        /\ (c.city_name = "cx" \/ c.service_type = "sx") =>
              c.geomCol /\ ~c.addrCol /\ c.log_n = 1
        /\ c.geomCol => c.llCol
        /\ ~c.llCol => c.service_type = "s1" /\ ~c.addrCol /\ c.log_n = 1
        /\ c.service_type = "s3" => ~c.geomCol /\ ~c.addrCol /\ c.log_n = 1 }

\* exception classes a failing statement on the connection may raise
DbErrors == {"RuntimeError", "Error"}

---------------------------------------------------------------------------
(* The connection: psycopg2 transaction with one named savepoint *)

\* conn.commit(): the working state becomes the committed one; savepoints end
Commit(t) ==
    LET d == [t.db EXCEPT !.dirty = {}]
    IN  [db |-> d, committed |-> d, savepoint |-> <<>>]

\* conn.rollback(): the open transaction is undone as a whole
Rollback(t) == [db |-> t.committed, committed |-> t.committed, savepoint |-> <<>>]

\* a SAVEPOINT statement that establishes nothing
MutSavepointNone(t) == t

\* cur.execute("SAVEPOINT previous_object")
Savepoint(t) == [t EXCEPT !.savepoint = <<t.db>>]

\* cur.execute("ROLLBACK TO previous_object")
RollbackTo(t) == IF t.savepoint = <<>> THEN t ELSE [t EXCEPT !.db = t.savepoint[1]]

\* the except-branches of add_objects: ROLLBACK TO in commit mode, conn.rollback() otherwise
RowRollback(t) == IF cfg.commit THEN RollbackTo(t) ELSE Rollback(t)

---------------------------------------------------------------------------
(* Strings *)

\* line 372: sorted(address_prefixes, key=lambda s: -len(s)), a stable sort
RECURSIVE Sorted(_)
Sorted(prefixes) ==
    IF prefixes = <<>> THEN <<>>
    ELSE LET longest == CHOOSE n \in 1..Len(prefixes) :
                            /\ \A m \in 1..Len(prefixes) : Len(prefixes[m]) <= Len(prefixes[n])
                            /\ \A m \in 1..(n - 1) : Len(prefixes[m]) < Len(prefixes[n])
             rest == [m \in 1..(Len(prefixes) - 1) |->
                         IF m < longest THEN prefixes[m] ELSE prefixes[m + 1]]
         IN  <<prefixes[longest]>> \o Sorted(rest)

StartsWith(s, p) == Len(p) <= Len(s) /\ SubSeq(s, 1, Len(p)) = p

\* build.address LIKE '%<address>'
EndsWith(s, p) == Len(p) <= Len(s) /\ SubSeq(s, Len(s) - Len(p) + 1, Len(s)) = p

\* geodesic distance in metres between two places
Distance(a, b) == 150 * (IF a >= b THEN a - b ELSE b - a)

\* a name taken from the row as it is
MutResolveNameRaw(row) == row.name

\* lines 469-471: name = row.get(mapping.name, default); the default
\* "(<service_type> without a name)" also replaces None and ""
ResolveName(row) ==
    LET default == "(" \o cfg.service_type \o " without a name)"
        name == IF row.name = Absent THEN default ELSE row.name
    IN  IF name = None \/ name = "" THEN default ELSE name

---------------------------------------------------------------------------
(* The lookups of add_objects *)

\* buildings of the city whose address ends with `address`, centre closer than 100 m
AddressCandidates(d, city_id, address, pt) ==
    { p \in d.phys : p.city = city_id /\ p.build /\ p.address # NULLADDR
                     /\ EndsWith(p.address, address) /\ Distance(p.at, pt) < 100 }

\* ST_Centroid of a geometry: the point at its place
ST_Centroid(g) == [type |-> "ST_Point", at |-> g.at]

ST_GeometryType(g) == g.type

\* lines 416-427 and 436: geom_type is the type of the centroid of the row's
\* geometry, or "ST_Point" without a geometry column
GeomType(row) ==
    IF cfg.geomCol THEN ST_GeometryType(ST_Centroid([type |-> row.geom, at |-> row.pt]))
    ELSE "ST_Point"

\* lines 616 and 695: the test that guards the geometry update of a container
\* found by geometry; current_geom_type is ST_GeometryType of the stored geometry
UpgradeTest(p, row) ==
    IF ServiceType(cfg.service_type).is_building
    THEN p.geometry = "ST_Point" /\ GeomType(row) # "ST_Point"
    ELSE p.geometry = "Point" /\ GeomType(row) # "Point"

\* ST_CoveredBy(row geometry, stored geometry) for geometries at one place: a
\* point covers nothing but a point
ST_CoveredBy(rowType, storedType) == rowType = "ST_Point" \/ storedType # "ST_Point"

\* a lookup that does not ask whether the physical object has a building
MutGeometryAnyKind(d, city_id, is_building, pt) ==
    { p \in d.phys : p.city = city_id /\ p.at = pt }

\* physical objects of the city (with a building iff the service type is
\* building-based) whose geometry matches the row's geometry or point
GeometryCandidates(d, city_id, is_building, pt) ==
    { p \in d.phys : p.city = city_id /\ p.build = is_building /\ p.at = pt }

\* a lookup whose WHERE clause never matches
MutFindFONone(d, phys_id, service_type_id, name) == {}

\* SELECT id FROM functional_objects WHERE physical_object_id = %s
\*   AND city_service_type_id = %s AND name = %s
FindFO(d, phys_id, service_type_id, name) ==
    { f \in d.fos : f.phys = phys_id /\ f.st = service_type_id /\ f.name = name }

---------------------------------------------------------------------------
(* The row matcher: what one iteration of the loop decides before it calls *)
(* insert_object or update_object.  The outcomes form a set because        *)
(* LIMIT 1 picks any qualifying row and a statement may fail.              *)

Out(kind, tag, phys, fo, exc) ==
    [kind |-> kind, tag |-> tag, phys |-> phys, fo |-> fo, exc |-> exc]

\* the container lookups and the de-duplication lookup
ContainerOutcomes(d, row, address, name) ==
    LET st == ServiceType(cfg.service_type)
        city_id == CityId(cfg.city_name)
        byAddr == IF st.is_building /\ address # NULLADDR /\ address # <<>>
                  THEN AddressCandidates(d, city_id, address, row.pt)
                  ELSE {}
        Dedup(p, tag) ==
            IF FindFO(d, p.id, st.id, name) # {}
            THEN { Out("update", "updated", p.id, f.id, "") : f \in FindFO(d, p.id, st.id, name) }
            ELSE IF tag = "by_geometry" /\ UpgradeTest(p, row)
            THEN \* lines 617-624, 696-702: the UPDATE spells FROM as FORM and fails
                 { Out("raise", "", 0, 0, "Error") }
            ELSE { Out("found", tag, p.id, 0, "") }
    IN  IF byAddr # {}
        THEN UNION { Dedup(p, "by_address") : p \in byAddr }
        ELSE IF st.is_building /\ ~cfg.geomCol
             THEN \* the statement selects build.addres, a column that does not exist
                  { Out("raise", "", 0, 0, "Error") }
             ELSE LET byGeom ==
                          { p \in GeometryCandidates(d, city_id, st.is_building, row.pt) :
                              \* lines 629-645: a non-building container must cover
                              \* the row's geometry, a building (538) intersect it
                              (~st.is_building /\ cfg.geomCol) => ST_CoveredBy(row.geom, p.geometry) }
                  IN  IF byGeom # {}
                      THEN UNION { Dedup(p, "by_geometry") : p \in byGeom }
                      ELSE { Out("new", "as_point", 0, 0, "") }

RowOutcomes(d, row) ==
    LET st == ServiceType(cfg.service_type)
    IN  IF cfg.geomCol /\ row.pt = 0
        THEN \* ST_GeomFromGeoJSON fails inside the inner try
             { Out("raise_geometry", "", 0, 0, e) : e \in DbErrors }
        ELSE IF ~cfg.geomCol /\ ~cfg.llCol
        THEN \* lines 438-439: row[mapping.latitude] or row[mapping.longitude] raises KeyError
             { Out("raise", "", 0, 0, "KeyError") }
        ELSE IF ~cfg.geomCol /\ row.pt = 0
        THEN \* float(row[mapping.latitude]) raises ValueError
             { Out("raise", "", 0, 0, "ValueError") }
        ELSE IF st.is_building /\ cfg.addrCol
        THEN IF Sorted(cfg.address_prefixes) # <<>>
             THEN \* str.startswith(address_prefixes) with a list raises TypeError
                  { Out("raise", "", 0, 0, "TypeError") }
             ELSE \* the for loop has no iteration: its else branch skips the row
                  { Out("skip", "skip_prefix", 0, 0, "") }
        ELSE IF ~cfg.geomCol /\ ~cfg.llCol
        THEN \* lines 461-468
             { Out("skip", "skip_missing", 0, 0, "") }
        ELSE ContainerOutcomes(d, row, NULLADDR, ResolveName(row))

---------------------------------------------------------------------------
(* State *)

NoResult == [tag |-> "", phys |-> 0]
\* address is None from line 444 on: the assignment of line 449 follows the
\* call of line 448, which raises
NoLoc == [phys_id |-> 0, name |-> "", fo |-> 0, address |-> NULLADDR]
NoCount == [present |-> 0, added_to_address |-> 0, added_to_geom |-> 0,
            added_as_points |-> 0, skipped |-> 0]
NoPrev == [results |-> <<>>, functional_ids |-> <<>>, db |-> InitDB]
NoFO == [id |-> 0]
NoCall == [op |-> ""]

Init ==
    /\ cfg \in Configs
    /\ objects = <<>>
    /\ results = [r \in 1..NRows |-> NoResult]
    /\ functional_ids = [r \in 1..NRows |-> -1]
    /\ cnt = NoCount
    /\ i = 0
    /\ pc = "start"
    /\ loc = NoLoc
    /\ tx = [db |-> InitDB, committed |-> InitDB, savepoint |-> <<>>]
    /\ seqs = [phys |-> Cardinality(InitPhys), fo |-> Cardinality(InitFOs)]
    /\ run = 1
    /\ prev = NoPrev
    /\ k = 0
    /\ hist = [db0 |-> InitDB, choice |-> "", end |-> "", exc |-> ""]
    /\ stored = NoFO
    /\ call = NoCall

Row == objects[i + 1]

\* objects.shape[0]: results and functional_ids are lists of that length
\* (lines 370-371)
Shape0 == Len(results)

SetResult(tag, phys) == [results EXCEPT ![i + 1] = [tag |-> tag, phys |-> phys]]

\* a write of the row in progress on the working state
Write(t, d) == [t EXCEPT !.db = [d EXCEPT !.dirty = @ \cup {i + 1}]]

\* a savepoint set whatever the commit flag
MutAfterCallAlways(t) == Savepoint(t)

\* calls that leave the savepoint where it was
MutAfterCallNever(t) == t

\* insert_object and update_object end with SAVEPOINT previous_object when commit
AfterCall(t) == IF cfg.commit THEN Savepoint(t) ELSE t

---------------------------------------------------------------------------
(* add_objects *)

\* lines 373-402: city and service type lookups, the first savepoint
Start ==
    /\ pc = "start"
    /\ IF CityId(cfg.city_name) = 0
       THEN /\ results' = [r \in 1..Shape0 |-> [tag |-> "no_city", phys |-> 0]]
            /\ pc' = "done"
            /\ hist' = [hist EXCEPT !.end = "aborted"]
            /\ tx' = tx
       ELSE IF ServiceType(cfg.service_type).id = 0
       THEN /\ results' = [r \in 1..Shape0 |-> [tag |-> "no_service_type", phys |-> 0]]
            /\ pc' = "done"
            /\ hist' = [hist EXCEPT !.end = "aborted"]
            /\ tx' = tx
       ELSE /\ tx' = IF cfg.commit THEN Savepoint(tx) ELSE tx
            /\ pc' = "top"
            /\ UNCHANGED <<results, hist>>
    /\ UNCHANGED <<cfg, objects, functional_ids, cnt, i, loc, seqs, run, prev, k,
                   stored, call>>

\* a checkpoint taken before the first row only
MutCheckpointFirstOnly(idx) == idx = 0

\* line 405: the rows at which the transaction is committed
Checkpoint(idx) == idx % cfg.log_n = 0

\* lines 404-413: the next row is read, i is set, and every log_n rows the
\* transaction is committed and the savepoint set again
NextRow ==
    /\ pc = "top"
    /\ k < Shape0
    /\ \E row \in (IF Len(objects) > k THEN {objects[k + 1]} ELSE Rows(cfg)) :
          objects' = IF Len(objects) > k THEN objects ELSE Append(objects, row)
    /\ i' = k
    /\ tx' = IF Checkpoint(k) /\ cfg.commit THEN Savepoint(Commit(tx)) ELSE tx
    /\ pc' = "row"
    /\ UNCHANGED <<cfg, results, functional_ids, cnt, loc, seqs, run, prev, k, hist,
                   stored, call>>

\* lines 813-815: the loop ended without an exception
Finish ==
    /\ pc = "top"
    /\ k = Shape0
    /\ tx' = IF cfg.commit THEN Commit(tx) ELSE tx
    /\ pc' = "done"
    /\ hist' = [hist EXCEPT !.end = "completed"]
    /\ UNCHANGED <<cfg, objects, results, functional_ids, cnt, i, loc, seqs, run, prev, k,
                   stored, call>>

\* the except clauses name RuntimeError only
Caught(exc) == exc = "RuntimeError"

\* lines 786-795 (inner = FALSE) and 428-434 (inner = TRUE): a caught exception
Handled(inner) ==
    /\ tx' = RowRollback(tx)
    /\ results' = SetResult(IF inner THEN "skip_geometry" ELSE "skip_error", 0)
    /\ cnt' = IF inner THEN cnt ELSE [cnt EXCEPT !.skipped = @ + 1]
    /\ pc' = "top"
    /\ k' = k + 1
    /\ UNCHANGED <<cfg, objects, functional_ids, i, loc, seqs, run, prev, hist,
                   stored, call>>

\* an exception no except clause of add_objects names leaves add_objects
Escaped(exc) ==
    /\ pc' = "crashed"
    /\ hist' = [hist EXCEPT !.end = "crashed", !.exc = exc]
    /\ UNCHANGED <<cfg, objects, results, functional_ids, cnt, i, loc, tx, seqs, run, prev, k,
                   stored, call>>

\* lines 415-705 raise RuntimeError
RowError ==
    /\ pc = "row"
    /\ \E o \in RowOutcomes(tx.db, Row) :
          /\ o.kind \in {"raise", "raise_geometry"}
          /\ Caught(o.exc)
          /\ Handled(o.kind = "raise_geometry")

\* lines 415-705 raise another exception
RowCrash ==
    /\ pc = "row"
    /\ \E o \in RowOutcomes(tx.db, Row) :
          /\ o.kind \in {"raise", "raise_geometry"}
          /\ ~Caught(o.exc)
          /\ Escaped(o.exc)

\* lines 451-460 and 461-468: skipped, no prefix matches or a required column
\* is missing
RowSkip ==
    /\ pc = "row"
    /\ \E o \in RowOutcomes(tx.db, Row) :
          /\ o.kind = "skip"
          /\ results' = SetResult(o.tag, 0)
          /\ cnt' = [cnt EXCEPT !.skipped = @ + 1]
    /\ pc' = "top"
    /\ k' = k + 1
    /\ UNCHANGED <<cfg, objects, functional_ids, i, loc, tx, seqs, run, prev, hist,
                   stored, call>>

\* lines 513-518, 586-599, 681-686: the service is present in the container
RowPresent ==
    /\ pc = "row"
    /\ \E o \in RowOutcomes(tx.db, Row) :
          /\ o.kind = "update"
          /\ results' = SetResult(o.tag, o.phys)
          /\ functional_ids' = [functional_ids EXCEPT ![i + 1] = o.fo]
          /\ loc' = [phys_id |-> o.phys, name |-> ResolveName(Row), fo |-> o.fo,
                      address |-> NULLADDR]
    /\ pc' = "upd"
    /\ UNCHANGED <<cfg, objects, cnt, i, tx, seqs, run, prev, k, hist,
                   stored, call>>

\* lines 522-526, 603-615, 690-694: a container is found, the service is not in it
RowFound ==
    /\ pc = "row"
    /\ \E o \in RowOutcomes(tx.db, Row) :
          /\ o.kind = "found"
          /\ results' = SetResult(o.tag, o.phys)
          /\ cnt' = IF o.tag = "by_address"
                    THEN [cnt EXCEPT !.added_to_address = @ + 1]
                    ELSE [cnt EXCEPT !.added_to_geom = @ + 1]
          /\ loc' = [phys_id |-> o.phys, name |-> ResolveName(Row), fo |-> 0,
                      address |-> NULLADDR]
    /\ pc' = "ins"
    /\ UNCHANGED <<cfg, objects, functional_ids, i, tx, seqs, run, prev, k, hist,
                   stored, call>>

\* lines 706-775: no container is found, a physical object (and a building
\* for a building-based service type) is inserted
RowNew ==
    /\ pc = "row"
    /\ \E o \in RowOutcomes(tx.db, Row) : o.kind = "new"
    /\ LET id == seqs.phys + 1
           p == [id |-> id, city |-> CityId(cfg.city_name),
                 build |-> ServiceType(cfg.service_type).is_building,
                 address |-> NULLADDR, at |-> Row.pt, new |-> TRUE,
                 geometry |-> IF cfg.geomCol THEN Row.geom ELSE "ST_Point"]
       IN  /\ seqs' = [seqs EXCEPT !.phys = id]
           /\ tx' = Write(tx, [tx.db EXCEPT !.phys = @ \cup {p}])
           /\ results' = SetResult("as_point", id)
           /\ loc' = [phys_id |-> id, name |-> ResolveName(Row), fo |-> 0,
                      address |-> NULLADDR]
    /\ cnt' = [cnt EXCEPT !.added_as_points = @ + 1]
    /\ pc' = "ins"
    /\ UNCHANGED <<cfg, objects, functional_ids, i, run, prev, k, hist,
                   stored, call>>

\* the logical time of the row in progress
Now == (run - 1) * Shape0 + i + 1

\* lines 234-280 update_object
UpdateObject ==
    /\ pc = "upd"
    /\ LET fos == { IF f.id = loc.fo THEN [f EXCEPT !.name = loc.name, !.updated_at = Now] ELSE f
                    : f \in tx.db.fos }
       IN  tx' = AfterCall(Write(tx, [tx.db EXCEPT !.fos = fos]))
    /\ cnt' = [cnt EXCEPT !.present = @ + 1]
    /\ pc' = "top"
    /\ k' = k + 1
    /\ UNCHANGED <<cfg, objects, results, functional_ids, i, loc, seqs, run, prev, hist,
                   stored, call>>

\* lines 174-218 insert_object, and the assignment of line 776
InsertObject ==
    /\ pc = "ins"
    /\ ChainResolved(ServiceType(cfg.service_type).id)
    /\ LET id == seqs.fo + 1
           f == FO(id, loc.phys_id, ServiceType(cfg.service_type).id, loc.name, 0)
       IN  /\ seqs' = [seqs EXCEPT !.fo = id]
           /\ tx' = AfterCall(Write(tx, [tx.db EXCEPT !.fos = @ \cup {f}]))
           /\ functional_ids' = [functional_ids EXCEPT ![i + 1] = id]
    /\ pc' = "top"
    /\ k' = k + 1
    /\ UNCHANGED <<cfg, objects, results, cnt, i, loc, run, prev, hist,
                   stored, call>>

\* a statement of insert_object or update_object raises RuntimeError
CallError ==
    /\ pc \in {"upd", "ins"}
    /\ \E e \in DbErrors : Caught(e)
    /\ Handled(FALSE)

\* line 183: cur.fetchone() is None when the chain has no row, and unpacking
\* None raises TypeError
ChainErrors ==
    IF pc = "ins" /\ ~ChainResolved(ServiceType(cfg.service_type).id) THEN {"TypeError"} ELSE {}

\* insert_object or update_object raises another exception
CallCrash ==
    /\ pc \in {"upd", "ins"}
    /\ \E e \in DbErrors \cup ChainErrors : ~Caught(e) /\ Escaped(e)

\* the rows after the row in progress are marked
MutCancelMarkAfter(res) ==
    [r \in 1..Shape0 |-> IF r > i + 1 THEN [tag |-> "cancelled", phys |-> 0] ELSE res[r]]

\* lines 811-812
CancelMark(res) ==
    [r \in 1..Shape0 |-> IF r >= i + 1 THEN [tag |-> "cancelled", phys |-> 0] ELSE res[r]]

\* lines 796-812: KeyboardInterrupt raised anywhere in the loop
Interrupt ==
    /\ pc \in {"top", "row", "upd", "ins"}
    /\ IF cfg.commit
       THEN /\ pc' = "prompt"
            /\ UNCHANGED <<results, hist>>
       ELSE /\ pc' = "done"
            /\ results' = CancelMark(results)
            /\ hist' = [hist EXCEPT !.end = "interrupted"]
    /\ UNCHANGED <<cfg, objects, functional_ids, cnt, i, loc, tx, seqs, run, prev, k,
                   stored, call>>

\* lines 803-812: the answer to "save the changes made so far?"
UserChoice ==
    /\ pc = "prompt"
    /\ \E choice \in {"keep", "discard"} :
          /\ tx' = IF choice = "keep" THEN Commit(tx) ELSE Rollback(tx)
          /\ hist' = [hist EXCEPT !.choice = choice, !.end = "interrupted"]
    /\ results' = CancelMark(results)
    /\ pc' = "done"
    /\ UNCHANGED <<cfg, objects, functional_ids, cnt, i, loc, seqs, run, prev, k,
                   stored, call>>

\* add_objects is called again on the same connection with the same arguments
Rerun ==
    /\ pc = "done"
    /\ hist.end = "completed"
    /\ cfg.commit
    /\ run + 1 \in Runs
    /\ prev' = [results |-> results, functional_ids |-> functional_ids, db |-> tx.db]
    /\ run' = run + 1
    /\ results' = [r \in 1..Shape0 |-> NoResult]
    /\ functional_ids' = [r \in 1..Shape0 |-> -1]
    /\ cnt' = NoCount
    /\ i' = 0
    /\ k' = 0
    /\ loc' = NoLoc
    /\ pc' = "start"
    /\ hist' = [db0 |-> tx.committed, choice |-> "", end |-> "", exc |-> ""]
    /\ UNCHANGED <<cfg, objects, tx, seqs,
                   stored, call>>

Next ==
    \/ Start
    \/ NextRow
    \/ Finish
    \/ RowError
    \/ RowCrash
    \/ RowSkip
    \/ RowPresent
    \/ RowFound
    \/ RowNew
    \/ UpdateObject
    \/ InsertObject
    \/ CallError
    \/ CallCrash
    \/ Interrupt
    \/ UserChoice

\* one call of add_objects, which the user may interrupt
Spec == Init /\ [][Next]_vars

NextRerun ==
    \/ Start
    \/ NextRow
    \/ Finish
    \/ RowError
    \/ RowCrash
    \/ RowSkip
    \/ RowPresent
    \/ RowFound
    \/ RowNew
    \/ UpdateObject
    \/ InsertObject
    \/ CallError
    \/ CallCrash
    \/ Rerun

\* on_load_objects with Shift held is a dry run, rolled back when add_objects
\* has returned (lines 447, 487-488); the same table is then loaded again
\* without Shift, on the same connection
Preview ==
    /\ pc = "done"
    /\ hist.end = "completed"
    /\ ~cfg.commit
    /\ run + 1 \in Runs
    /\ cfg' = [cfg EXCEPT !.commit = TRUE]
    /\ tx' = Rollback(tx)
    /\ prev' = [results |-> results, functional_ids |-> functional_ids, db |-> tx.db]
    /\ run' = run + 1
    /\ results' = [r \in 1..Shape0 |-> NoResult]
    /\ functional_ids' = [r \in 1..Shape0 |-> -1]
    /\ cnt' = NoCount
    /\ i' = 0
    /\ k' = 0
    /\ loc' = NoLoc
    /\ pc' = "start"
    /\ hist' = [db0 |-> tx.committed, choice |-> "", end |-> "", exc |-> ""]
    /\ UNCHANGED <<objects, seqs, stored, call>>

\* the table of the preview has one row more than the other tables
PreviewRows == NRows + 1

\* a dry run on a table of PreviewRows rows of a known city and service type
InitPreview ==
    /\ cfg \in { c \in Configs : /\ ~c.commit /\ c.city_name = "c1" /\ c.geomCol
                                  /\ c.service_type \in {"s1", "s2"}
                                  /\ c.addrCol = ServiceType(c.service_type).is_building
                                  /\ c.nameCol /\ ~c.nulls /\ ~c.polygons }
    /\ objects = <<>>
    /\ results = [r \in 1..PreviewRows |-> NoResult]
    /\ functional_ids = [r \in 1..PreviewRows |-> -1]
    /\ cnt = NoCount
    /\ i = 0
    /\ pc = "start"
    /\ loc = NoLoc
    /\ tx = [db |-> InitDB, committed |-> InitDB, savepoint |-> <<>>]
    /\ seqs = [phys |-> Cardinality(InitPhys), fo |-> Cardinality(InitFOs)]
    /\ run = 1
    /\ prev = NoPrev
    /\ k = 0
    /\ hist = [db0 |-> InitDB, choice |-> "", end |-> "", exc |-> ""]
    /\ stored = NoFO
    /\ call = NoCall

NextPreview ==
    \/ Start
    \/ NextRow
    \/ Finish
    \/ RowError
    \/ RowCrash
    \/ RowSkip
    \/ RowPresent
    \/ RowFound
    \/ RowNew
    \/ UpdateObject
    \/ InsertObject
    \/ CallError
    \/ CallCrash
    \/ Preview

\* a dry run and, after its rollback, the committing run on the same table
SpecPreview == InitPreview /\ [][NextPreview]_vars

\* the calls are repeated on tables of point geometries with a name column
\* without None cells
InitRerun == Init /\ ~cfg.polygons /\ cfg.nameCol /\ ~cfg.nulls

\* calls of add_objects one after another on one connection, none interrupted
SpecRerun == InitRerun /\ [][NextRerun]_vars

---------------------------------------------------------------------------
(* insert_object and update_object column by column.  The batch model above *)
(* keeps of a functional object its key (container, service type, name);    *)
(* here one functional object is followed through the call that inserts it  *)
(* and the calls that update it, each with a row of its own table.  A text  *)
(* cell is None, "" or a text; the capacity cell is absent (the table has   *)
(* no capacity column), None, "", an integer, or a text of digits (v is the *)
(* number it spells).                                                       *)

\* properties_mapping, an argument of add_objects, insert_object and
\* update_object: pairs <<key of the properties document, column of the table>>
PropertiesMappings == { {}, {<<"p", "colp">>, <<"q", "colq">>} }

\* the values of the cells row.get(mapping.opening_hours), row.get(mapping.website),
\* row.get(mapping.phone), of the capacity cell and of the columns colp and colq.
\* The property columns are read only under a properties mapping that names
\* them; under it the other cells take fewer values.
Cells(properties_mapping) ==
    IF properties_mapping = {}
    THEN [ opening_hours : {None, "x"}, website : {"", "x"}, phone : {None, "", "x", "y"},
           capacity : {[kind |-> "absent", v |-> 0], [kind |-> "None", v |-> 0],
                       [kind |-> "empty", v |-> 0], [kind |-> "int", v |-> 2],
                       [kind |-> "int", v |-> 3], [kind |-> "text", v |-> 3]},
           colp : {Absent}, colq : {Absent} ]
    ELSE [ opening_hours : {None, "x"}, website : {""}, phone : {None},
           capacity : {[kind |-> "absent", v |-> 0], [kind |-> "int", v |-> 2]},
           colp : {None, "", "x", "y"}, colq : {Absent, "x", "y"} ]

\* lines 193-197 and 268-272: the document built from the row, one key for
\* every mapped column that is in the row with a value other than None and ""
FunctionalObjectProperties(row, properties_mapping) ==
    { <<m[1], row[m[2]]>> :
        m \in { n \in properties_mapping :
                  row[n[2]] # Absent /\ row[n[2]] # None /\ row[n[2]] # "" } }

\* a document replaced by the new one
MutJsonbReplace(a, b) == b

\* line 275: properties || %s::jsonb, the keys of b take b's values, the
\* other keys of a stay
JsonbConcat(a, b) == { kv \in a : \A w \in b : w[1] # kv[1] } \cup b

\* capacity_min and capacity_max of the service type (line 183)
ServiceCapacity == [capacity_min |-> 1, capacity_max |-> 2]

\* mapping.capacity in row
CapacityInRow(row) == row.capacity.kind # "absent"

\* isinstance(row[mapping.capacity], int)
IsInt(cell) == cell.kind = "int"

\* a range that reaches one past its upper end
Mutrandint(a, b) == a..(b + 1)

\* random.randint(a, b): any integer of a..b with both ends
randint(a, b) == a..b

\* lines 187-192: the capacity and is_capacity_real insert_object may store
InsertCapacity(row) ==
    IF CapacityInRow(row) /\ IsInt(row.capacity)
    THEN { [capacity |-> row.capacity.v, is_capacity_real |-> TRUE] }
    ELSE { [capacity |-> c, is_capacity_real |-> FALSE] :
             c \in randint(ServiceCapacity.capacity_min, ServiceCapacity.capacity_max) }

\* lines 174-218
insert_object ==
    /\ stored = NoFO
    /\ \E row \in Cells(cfg.properties_mapping), name \in {"a"} : \E c \in InsertCapacity(row) :
          /\ stored' = [id |-> 1, name |-> name, opening_hours |-> row.opening_hours,
                        website |-> row.website, phone |-> row.phone,
                        capacity |-> c.capacity, is_capacity_real |-> c.is_capacity_real,
                        properties |-> FunctionalObjectProperties(row, cfg.properties_mapping)]
          /\ call' = [op |-> "insert", row |-> row, before |-> NoFO, change |-> <<>>,
                      properties_written |-> TRUE]
    /\ UNCHANGED <<cfg, objects, results, functional_ids, cnt, i, pc, loc, tx, seqs, run, prev,
                   k, hist>>

Columns == <<"name", "opening_hours", "website", "phone", "capacity", "is_capacity_real">>

\* lines 243-258, the filter: the new value differs from the stored one and is
\* neither None nor ""
Differs(col, res, row, name) ==
    CASE col = "name" -> res.name # name /\ name # None /\ name # ""
      [] col = "capacity" ->
            \* row.get(mapping.capacity) is None without the column; a str is never
            \* equal to the stored int
            \/ IsInt(row.capacity) /\ row.capacity.v # res.capacity
            \/ row.capacity.kind = "text"
      [] col = "is_capacity_real" ->
            \* a bool is never None and never equal to ""
            res.is_capacity_real # CapacityInRow(row)
      [] OTHER -> res[col] # row[col] /\ row[col] # None /\ row[col] # ""

\* the list that is left without the slice of line 260
MutKeepAll(change, res, row) == change

\* lines 259-260: change[:-2] when the stored capacity is real and the row
\* has no capacity column
Trimmed(change, res, row) ==
    IF res.is_capacity_real /\ ~CapacityInRow(row)
    THEN (IF Len(change) <= 2 THEN <<>> ELSE SubSeq(change, 1, Len(change) - 2))
    ELSE change

\* lines 243-263: the columns of the SET clause, in order
Change(res, row, name) ==
    Append(Trimmed(SelectSeq(Columns, LAMBDA col : Differs(col, res, row, name)), res, row),
           "updated_at")

\* the value update_object passes for a column (the integer column takes a
\* text of digits as the number it spells)
NewValue(col, row, name) ==
    CASE col = "name" -> name
      [] col = "capacity" -> row.capacity.v
      [] col = "is_capacity_real" -> CapacityInRow(row)
      [] OTHER -> row[col]

Range(seq) == { seq[n] : n \in 1..Len(seq) }

\* lines 234-280; add_objects passes the name the functional object was
\* found by (lines 506-518), so name is the stored name
update_object ==
    /\ stored # NoFO
    /\ \E row \in Cells(cfg.properties_mapping) :
          LET name == stored.name
              change == Change(stored, row, name)
              functional_object_properties ==
                  FunctionalObjectProperties(row, cfg.properties_mapping)
              \* line 273: if db_properties != functional_object_properties
              written == stored.properties # functional_object_properties
          IN  /\ stored' = [col \in DOMAIN stored |->
                               IF col = "properties"
                               THEN (IF written
                                     THEN JsonbConcat(stored.properties, functional_object_properties)
                                     ELSE stored.properties)
                               ELSE IF col \in Range(change) THEN NewValue(col, row, name)
                               ELSE stored[col]]
              /\ call' = [op |-> "update", row |-> row, before |-> stored, change |-> change,
                          properties_written |-> written]
    /\ UNCHANGED <<cfg, objects, results, functional_ids, cnt, i, pc, loc, tx, seqs, run, prev,
                   k, hist>>

\* what the batch variables hold while the two calls are followed under a
\* properties mapping
InitCalls(properties_mapping) ==
    /\ cfg = [commit |-> FALSE, log_n |-> 1, city_name |-> "c1", service_type |-> "s1",
              geomCol |-> FALSE, llCol |-> TRUE, addrCol |-> FALSE, address_prefixes |-> <<Prefix>>,
              polygons |-> FALSE, nameCol |-> TRUE, nulls |-> FALSE,
              properties_mapping |-> properties_mapping]
    /\ objects = <<>>
    /\ results = [r \in 1..NRows |-> NoResult]
    /\ functional_ids = [r \in 1..NRows |-> -1]
    /\ cnt = NoCount
    /\ i = 0
    /\ pc = "call"
    /\ loc = NoLoc
    /\ tx = [db |-> InitDB, committed |-> InitDB, savepoint |-> <<>>]
    /\ seqs = [phys |-> Cardinality(InitPhys), fo |-> Cardinality(InitFOs)]
    /\ run = 1
    /\ prev = NoPrev
    /\ k = 0
    /\ hist = [db0 |-> InitDB, choice |-> "", end |-> "", exc |-> ""]
    /\ stored = NoFO
    /\ call = NoCall

\* the calls without a properties mapping
InitUpsert == InitCalls({})

\* the calls with a properties mapping of two keys
InitProperties == \E properties_mapping \in PropertiesMappings \ {{}} : InitCalls(properties_mapping)

NextUpsert ==
    \/ insert_object
    \/ update_object

\* one functional object: inserted, then updated any number of times
SpecUpsert == InitUpsert /\ [][NextUpsert]_vars

\* the same calls, followed on the properties document
SpecProperties == InitProperties /\ [][NextUpsert]_vars

---------------------------------------------------------------------------
(* SQLType and init_insertion_mapping, each followed through one call.  A   *)
(* raw value is a record of its Python type (kind) and its text (s).  The   *)
(* words "net (ru)" and "lozh (ru)" stand for the two Russian tokens of     *)
(* line 79, and the keys in "(ru)" for the Russian keys of sqltype_mapping. *)

SQLType == {"INT", "VARCHAR", "DOUBLE", "BOOLEAN", "SMALLINT", "JSONB", "TIMESTAMP"}

V(kind, str) == [kind |-> kind, s |-> str]

PyNone == V("None", "None")

\* the raw values a cell may hold
RawValues ==
    { PyNone, V("float", "nan"), V("float", "1.5"), V("int", "1"), V("int", "0"),
      V("bool", "True"), V("bool", "False"), V("dict", "{}"), V("struct_time", "2020-01-02 03:04:05") }
    \cup { V("str", x) : x \in {"", "12", "1.5", "abc", "-", "0", "false", "FALSE", "No", "off",
                                "net (ru)", "lozh (ru)", "yes", "true"} }

\* str.lower() on the texts in use
Lower(str) ==
    CASE str = "FALSE" -> "false"
      [] str = "No" -> "no"
      [] str = "INTEGER" -> "integer"
      [] str = "Timestamp" -> "timestamp"
      [] OTHER -> str

\* float(value): the text of the float, or the exception raised
Float(value) ==
    CASE value.kind = "str" /\ value.s \in {"12", "0"} -> [exc |-> "", ret |-> value.s \o ".0"]
      [] value.kind = "str" /\ value.s = "1.5" -> [exc |-> "", ret |-> "1.5"]
      [] value.kind = "str" -> [exc |-> "ValueError", ret |-> ""]
      [] value.kind = "float" -> [exc |-> "", ret |-> value.s]
      [] value.kind = "int" -> [exc |-> "", ret |-> value.s \o ".0"]
      [] value.kind = "bool" -> [exc |-> "", ret |-> IF value.s = "True" THEN "1.0" ELSE "0.0"]
      [] OTHER -> [exc |-> "TypeError", ret |-> ""]

\* int(x) of a float given by its text
ToInt(str) ==
    CASE str = "nan" -> [exc |-> "ValueError", ret |-> ""]
      [] str = "12.0" -> [exc |-> "", ret |-> "12"]
      [] str \in {"1.5", "1.0"} -> [exc |-> "", ret |-> "1"]
      [] OTHER -> [exc |-> "", ret |-> "0"]

\* a null test that lets NaN through
MutIsNullNoNaN(value) == value.kind = "None" \/ value = V("str", "")

\* lines 66-70: None, a value not equal to itself, or the empty string
IsNull(value) == value.kind = "None" \/ value = V("float", "nan") \/ value = V("str", "")

FalsyTokens == {"-", "0", "false", "no", "off", "net (ru)", "lozh (ru)"}

Returns(value) == [exc |-> "", ret |-> value]
Raises(exc) == [exc |-> exc, ret |-> PyNone]

\* lines 72-89, the body of the try: the value returned or the exception raised
CastBody(type, value) ==
    IF type \in {"INT", "SMALLINT"}
    THEN IF Float(value).exc # "" THEN Raises(Float(value).exc)
         ELSE IF ToInt(Float(value).ret).exc # "" THEN Raises(ToInt(Float(value).ret).exc)
         ELSE Returns(V("int", ToInt(Float(value).ret).ret))
    ELSE IF type = "DOUBLE"
    THEN IF Float(value).exc # "" THEN Raises(Float(value).exc)
         ELSE Returns(V("float", Float(value).ret))
    ELSE IF type = "BOOLEAN" /\ value.kind = "str"
    THEN Returns(V("bool", IF Lower(value.s) \in FalsyTokens THEN "False" ELSE "True"))
    ELSE IF type = "JSONB"
    THEN Returns(V("str", "json:" \o value.s))
    ELSE IF type = "TIMESTAMP"
    THEN IF value.kind = "struct_time" THEN Returns(V("str", value.s)) ELSE Raises("ValueError")
    ELSE \* VARCHAR, and BOOLEAN with a value that is no str
         Raises("NotImplementedError")

\* lines 90-91: NotImplementedError is a subclass of RuntimeError
IsRuntimeError(exc) == exc \in {"RuntimeError", "NotImplementedError"}

\* lines 65-91 SQLType.cast
Cast(type, value) ==
    IF IsNull(value) THEN Returns(PyNone)
    ELSE IF IsRuntimeError(CastBody(type, value).exc) THEN Returns(PyNone)
    ELSE CastBody(type, value)

\* lines 94-107, without the second "varchar" that dict() drops
sqltype_mapping ==
    [ x \in {"character varying", "varchar", "str", "string", "text", "stroka (ru)"} |-> "VARCHAR" ]
    @@ [ x \in {"double precision", "float", "double", "veshchestvennoe (ru)", "netseloe (ru)"} |-> "DOUBLE" ]
    @@ [ x \in {"integer", "int", "number", "tseloe (ru)"} |-> "INT" ]
    @@ [ x \in {"smallint", "maloe (ru)", "maloe tseloe (ru)"} |-> "SMALLINT" ]
    @@ [ x \in {"jsonb", "json"} |-> "JSONB" ]
    @@ [ x \in {"boolean", "bulevo (ru)"} |-> "BOOLEAN" ]
    @@ [ x \in {"timestamp", "date", "time", "datetime", "data (ru)", "vremya (ru)"} |-> "TIMESTAMP" ]

\* lines 54-63 SQLType.sql_name
sql_name(type) ==
    CASE type = "INT" -> "integer"
      [] type = "VARCHAR" -> "character varying"
      [] type = "DOUBLE" -> "double precision"
      [] type = "BOOLEAN" -> "boolean"
      [] type = "SMALLINT" -> "smallint"
      [] type = "JSONB" -> "jsonb"
      [] type = "TIMESTAMP" -> "timestamp with time zone"

\* the type names from_name is called with
TypeNames ==
    DOMAIN sqltype_mapping \cup { sql_name(t) : t \in SQLType }
    \cup {"INTEGER", "Timestamp", "character varying(50)", "uuid"}

\* name.startswith("character varying") on the names in use
StartsWithVarchar(name) == name \in {"character varying", "character varying(50)"}

\* lines 45-51 SQLType.from_name
FromName(name) ==
    IF Lower(name) \in DOMAIN sqltype_mapping THEN Returns(sqltype_mapping[Lower(name)])
    ELSE IF StartsWithVarchar(name) THEN Returns("VARCHAR")
    ELSE Raises("ValueError")

\* the fields of InsertionMapping, in order (lines 109-123)
Slots == <<"name", "opening_hours", "website", "phone", "address", "capacity", "osm_id",
           "latitude", "longitude", "geometry">>

\* the parameters of init_insertion_mapping, in order (lines 126-137)
Params == <<"name", "opening_hours", "website", "phone", "address", "osm_id", "capacity",
            "latitude", "longitude", "geometry">>

\* line 138
fixer(str) == IF str \in {"", "-"} THEN None ELSE str

\* the constructor called with the values in the order of the fields
MutInitInsertionMapping(args) ==
    [ slot \in Range(Slots) |-> fixer(args[CHOOSE n \in 1..Len(Slots) : Slots[n] = slot]) ]

\* lines 126-155: args are the positional arguments; each field of the result
\* takes the parameter of its name
InitInsertionMapping(args) ==
    [ slot \in Range(Slots) |-> fixer(args[CHOOSE n \in 1..Len(Params) : Params[n] = slot]) ]

\* the arguments a caller passes for the parameters, in their order
MappingArgs ==
    { [n \in 1..Len(Params) |-> a[Params[n]]] :
        a \in [ name : {None, "-", "col"}, opening_hours : {"-", "col"}, website : {"-", "col"},
                phone : {"-", "col"}, address : {None, "-", "col"},
                osm_id : {None, "", "-", "col", "id"}, capacity : {None, "", "-", "col"},
                latitude : {"", "col"}, longitude : {"", "col"}, geometry : {"", "col"} ] }

\* SQLType.cast is called
cast ==
    /\ call = NoCall
    /\ \E type \in SQLType, value \in RawValues :
          call' = [op |-> "cast", type |-> type, value |-> value, out |-> Cast(type, value)]
    /\ UNCHANGED <<cfg, objects, results, functional_ids, cnt, i, pc, loc, tx, seqs, run, prev,
                   k, hist, stored>>

\* SQLType.from_name is called
from_name ==
    /\ call = NoCall
    /\ \E name \in TypeNames :
          call' = [op |-> "from_name", name |-> name, out |-> FromName(name)]
    /\ UNCHANGED <<cfg, objects, results, functional_ids, cnt, i, pc, loc, tx, seqs, run, prev,
                   k, hist, stored>>

\* init_insertion_mapping is called as run_cli calls it (lines 1057-1068), and
\* then once more with the fields of its result as the parameters of their name
init_insertion_mapping ==
    /\ call = NoCall
    /\ \E args \in MappingArgs :
          LET mapping == InitInsertionMapping(args)
              again == [n \in 1..Len(Params) |-> mapping[Params[n]]]
          IN  call' = [op |-> "init_insertion_mapping", args |-> args, out |-> mapping,
                       twice |-> InitInsertionMapping(again)]
    /\ UNCHANGED <<cfg, objects, results, functional_ids, cnt, i, pc, loc, tx, seqs, run, prev,
                   k, hist, stored>>

\* the values of the argument materialized_views_names: None, the default ...
\* (argument not given) or a list of names
ViewArgs ==
    { [kind |-> "None", names |-> <<>>], [kind |-> "Ellipsis", names |-> <<>>] } \cup
    { [kind |-> "list", names |-> n] :
        n \in { <<>>, <<"v1">>, <<"v2", "v1">>, <<"v1", "v1">>, <<"all_services">> } }

\* operations.py lines 17-24: the REFRESH MATERIALIZED VIEW statements the
\* cursor executes, in order.  The for loop of lines 22-24 is indented under
\* the branch of line 19.
RefreshMaterializedViews(materialized_views_names) ==
    IF materialized_views_names.kind = "None" THEN <<>>
    ELSE IF materialized_views_names.kind = "Ellipsis"
         THEN LET names == <<"all_buildings", "all_services", "cities_statistics">>
              IN  [n \in 1..Len(names) |-> names[n]]
         ELSE <<>>

\* refresh_materialized_views is called
refresh_materialized_views ==
    /\ call = NoCall
    /\ \E arg \in ViewArgs :
          call' = [op |-> "refresh_materialized_views", arg |-> arg,
                   executed |-> RefreshMaterializedViews(arg)]
    /\ UNCHANGED <<cfg, objects, results, functional_ids, cnt, i, pc, loc, tx, seqs, run, prev,
                   k, hist, stored>>

NextCalls ==
    \/ cast
    \/ from_name
    \/ init_insertion_mapping
    \/ refresh_materialized_views

\* one call of one of the four functions; the batch variables are idle
SpecCalls == InitUpsert /\ [][NextCalls]_vars

---------------------------------------------------------------------------
(* Properties *)

StId == ServiceType(cfg.service_type).id
Inserted == {"as_point", "by_address", "by_geometry"}
Ids(set) == { x.id : x \in set }

NoDuplicate(d) ==
    \A f, g \in d.fos : (f.phys = g.phys /\ f.st = g.st /\ f.name = g.name) => f = g

\* C1: no two functional objects ever share (physical_object_id,
\* service_type_id, name), in the working and in the committed database, over
\* any rows of one or several batches; insert_object is entered only for a
\* container that holds no functional object with the service type and the
\* resolved name, and update_object only for the object that has them.
DedupInvariant ==
    /\ NoDuplicate(tx.db)
    /\ NoDuplicate(tx.committed)
    /\ pc = "ins" =>
          ~\E f \in tx.db.fos : f.phys = loc.phys_id /\ f.st = StId /\ f.name = loc.name
    /\ pc = "upd" =>
          \E f \in tx.db.fos :
              f.id = loc.fo /\ f.phys = loc.phys_id /\ f.st = StId /\ f.name = loc.name

\* C1 witness: the second row resolved to the container and name of the
\* functional object the first row inserted, and was an update of it.
DedupWitness ==
    /\ run = 1 /\ pc = "top" /\ k = 2
    /\ results[1].tag \in Inserted
    /\ results[2].tag = "updated"
    /\ results[2].phys = results[1].phys
    /\ functional_ids[2] = functional_ids[1]
    /\ functional_ids[1] > Cardinality(InitFOs)

\* C2: when add_objects has completed twice with the same arguments and rows
\* (no row of either run raised), every row inserted by the first run is
\* updated-existing in the second with the same functional_object_id, and the
\* second run inserts no functional object and no physical object.
Idempotence ==
    (/\ run = 2 /\ pc = "done" /\ hist.end = "completed"
     /\ \A r \in 1..NRows : /\ results[r].tag \notin {"skip_error", "skip_geometry"}
                            /\ prev.results[r].tag \notin {"skip_error", "skip_geometry"})
    => /\ \A r \in 1..NRows :
             prev.results[r].tag \in Inserted =>
                 /\ results[r].tag = "updated"
                 /\ functional_ids[r] = prev.functional_ids[r]
       /\ Ids(tx.db.fos) = Ids(prev.db.fos)
       /\ Ids(tx.db.phys) = Ids(prev.db.phys)

\* the address of a row without the configured prefix it starts with
Stripped(addr) == SubSeq(addr, Len(Prefix) + 1, Len(addr))

\* C3: for a building-based service type, a row with valid coordinates whose
\* address starts with a configured prefix, and a building of the city with
\* that address within 100 m, ends in that building (inserted by address
\* match or updated there) once the loop is through with the row.
AddressPrecedence ==
    \A r \in 1..Len(objects) :
        (/\ ServiceType(cfg.service_type).is_building
         /\ cfg.addrCol
         /\ cfg.address_prefixes = <<Prefix>>
         /\ objects[r].pt # 0
         /\ StartsWith(objects[r].addr, Prefix)
         /\ AddressCandidates(tx.db, CityId(cfg.city_name), Stripped(objects[r].addr),
                              objects[r].pt) # {}
         /\ (r <= k \/ (pc = "crashed" /\ r = i + 1)))
        => /\ results[r].tag \in {"by_address", "updated"}
           /\ results[r].phys \in Ids(AddressCandidates(tx.db, CityId(cfg.city_name),
                                       Stripped(objects[r].addr), objects[r].pt))

\* C4: an exception raised while a row is matched or upserted never ends the
\* batch: add_objects is never left by an exception.
FailureIsolation == pc # "crashed"

\* C5: in commit mode the rows with uncommitted writes are never more than
\* the checkpoint interval log_n.
CheckpointCadence == cfg.commit => Cardinality(tx.db.dirty) <= cfg.log_n

\* C5 witness: a periodic commit after the first row has committed writes of
\* the batch and left no row uncommitted.
CheckpointWitness ==
    /\ cfg.commit /\ pc = "row" /\ i > 0 /\ i % cfg.log_n = 0
    /\ tx.db.dirty = {}
    /\ tx.committed # hist.db0

\* C6 as stated: in commit mode, after k rows are processed, at most
\* k mod log_n rows have uncommitted writes.
CheckpointBoundMod ==
    (cfg.commit /\ pc = "top") => Cardinality(tx.db.dirty) <= k % cfg.log_n

\* C6 amended: in commit mode, after k rows are processed, no row has
\* uncommitted writes when k = 0 and at most ((k - 1) mod log_n) + 1 rows
\* have when k >= 1.
CheckpointBoundAmended ==
    (cfg.commit /\ pc = "top") =>
        Cardinality(tx.db.dirty) <= (IF k = 0 THEN 0 ELSE ((k - 1) % cfg.log_n) + 1)

\* C6 witness: k is a multiple of log_n and all log_n rows of the window
\* have uncommitted writes.
CheckpointBoundWitness ==
    /\ cfg.commit /\ pc = "top" /\ k > 0 /\ k % cfg.log_n = 0
    /\ Cardinality(tx.db.dirty) = cfg.log_n

\* C7: the committed database never holds a physical object created by a
\* row without the functional object of that row.
NoPartialRowCommitted ==
    \A p \in tx.committed.phys : p.new => \E f \in tx.committed.fos : f.phys = p.id

\* C8: after an interruption in commit mode, the answer discard leaves the
\* committed database as it was when the batch started, and the answer keep
\* leaves every write made so far committed.
DiscardUndoesBatch ==
    (pc = "done" /\ hist.end = "interrupted" /\ cfg.commit) =>
        /\ hist.choice = "discard" => tx.committed = hist.db0 /\ tx.db = hist.db0
        /\ hist.choice = "keep" => tx.committed = tx.db

\* C9: after an interruption exactly the rows not yet processed are marked
\* cancelled; a row completely processed before keeps its outcome.
CancelExactlyUnprocessed ==
    (pc = "done" /\ hist.end = "interrupted") =>
        \A r \in 1..NRows : (results[r].tag = "cancelled") = (r > k)

\* C10: in commit mode, when add_objects has returned, every row with
\* functional_object_id >= 0 names a committed functional object with the
\* row's service type and resolved name.
PersistedDistinction ==
    (pc = "done" /\ cfg.commit) =>
        \A r \in 1..NRows :
            functional_ids[r] >= 0 =>
                \E f \in tx.committed.fos :
                    /\ f.id = functional_ids[r]
                    /\ f.st = StId
                    /\ f.name = ResolveName(objects[r])

\* the outcomes that record a row as skipped
SkipTags == {"skip_geometry", "skip_latlon", "skip_missing", "skip_prefix", "skip_error", "cancelled"}

\* C11: whenever add_objects returns the table (abort on an unknown city or
\* service type, completion, interruption), the table has one result and one
\* functional_obj_id per input row and no result is the empty string.
ResultsComplete ==
    pc = "done" =>
        /\ DOMAIN results = 1..NRows
        /\ DOMAIN functional_ids = 1..NRows
        /\ \A r \in 1..NRows : results[r].tag # ""

\* C11 witness: the batch was interrupted while its last row was in progress;
\* the first row keeps its insert outcome and the last is marked cancelled.
ResultsCompleteWitness ==
    /\ pc = "done" /\ hist.end = "interrupted"
    /\ k = NRows - 1 /\ i = NRows - 1
    /\ results[1].tag \in Inserted
    /\ results[NRows].tag = "cancelled"

\* C12: in the returned table every row whose outcome is a skip (invalid
\* geometry, invalid coordinates, missing fields, unmatched prefix, an error
\* raised for the row, cancelled) has functional_obj_id = -1.
SkipHasNoId ==
    pc = "done" =>
        \A r \in 1..NRows : results[r].tag \in SkipTags => functional_ids[r] = -1

\* C13: when the city or the service type is unknown, add_objects returns at
\* once: every row carries the message of the failed lookup and id -1, no row
\* is read or counted, and the connection has no savepoint, no write and no
\* commit.
AbortUntouched ==
    ((cfg.city_name = "cx" \/ cfg.service_type = "sx") /\ pc # "start") =>
        /\ pc = "done" /\ hist.end = "aborted"
        /\ \A r \in 1..NRows :
              /\ results[r].tag = (IF cfg.city_name = "cx" THEN "no_city" ELSE "no_service_type")
              /\ functional_ids[r] = -1
        /\ objects = <<>> /\ k = 0 /\ cnt = NoCount
        /\ tx = [db |-> hist.db0, committed |-> hist.db0, savepoint |-> <<>>]

\* C13 witness: a commit-mode batch for a known city and an unknown service
\* type has returned.
AbortWitness ==
    /\ pc = "done" /\ hist.end = "aborted"
    /\ cfg.commit /\ cfg.city_name = "c1" /\ cfg.service_type = "sx"
    /\ results[NRows].tag = "no_service_type"

\* C14: when the chain service type - city function - infrastructure type of
\* the batch's service type cannot be resolved, the batch ends as an abort:
\* no row processed, the working and the committed database as at the start,
\* and every row marked with the failure message (no interruption, no
\* exception other than the one of the unresolved chain).
ChainAbort ==
    (/\ CityId(cfg.city_name) # 0 /\ StId # 0 /\ ~ChainResolved(StId)
     /\ hist.exc \in {"", "TypeError"}
     /\ pc \in {"done", "crashed"} /\ hist.end # "interrupted")
    => /\ pc = "done"
       /\ k = 0
       /\ tx.db = hist.db0 /\ tx.committed = hist.db0
       /\ \A r \in 1..NRows : results[r].tag = "no_chain" /\ functional_ids[r] = -1

\* the loop is through with row r: processed, or left by an exception in it
Through(r) == r <= k \/ (pc = "crashed" /\ r = i + 1)

\* C15: a row without geometry whose latitude or longitude is no number is
\* skipped with the invalid-lat/lon reason, keeps id -1, writes nothing, and
\* the batch goes on.
LatLonSkip ==
    \A r \in 1..Len(objects) :
        (/\ ~cfg.geomCol /\ cfg.llCol /\ objects[r].pt = 0
         /\ Through(r) /\ hist.end # "interrupted")
        => /\ pc # "crashed"
           /\ results[r].tag = "skip_latlon"
           /\ functional_ids[r] = -1
           /\ r \notin tx.db.dirty

\* C16: a row of a table with neither a geometry column nor both coordinate
\* columns is skipped with the missing-fields reason, keeps id -1, writes
\* nothing, and the batch goes on.
MissingFieldsSkip ==
    \A r \in 1..Len(objects) :
        (/\ ~cfg.geomCol /\ ~cfg.llCol
         /\ Through(r) /\ hist.end # "interrupted")
        => /\ pc # "crashed"
           /\ results[r].tag = "skip_missing"
           /\ functional_ids[r] = -1
           /\ r \notin tx.db.dirty

\* the address starts with one of the configured prefixes
HasPrefix(addr) ==
    \E n \in 1..Len(cfg.address_prefixes) : StartsWith(addr, cfg.address_prefixes[n])

\* C17: for a building-based service type and a table with the address
\* column, a row (coordinates valid) whose address starts with no configured
\* prefix is skipped with the prefix reason, keeps id -1 and writes nothing,
\* and a row whose address starts with a prefix is not skipped for it; for a
\* non-building service type no row is skipped for its address.
PrefixSkip ==
    \A r \in 1..Len(objects) :
        (objects[r].pt # 0 /\ Through(r) /\ hist.end # "interrupted") =>
            IF ServiceType(cfg.service_type).is_building /\ cfg.addrCol
            THEN IF HasPrefix(objects[r].addr)
                 THEN results[r].tag # "skip_prefix"
                 ELSE /\ pc # "crashed"
                      /\ results[r].tag = "skip_prefix"
                      /\ functional_ids[r] = -1
                      /\ r \notin tx.db.dirty
            ELSE results[r].tag # "skip_prefix"

\* the row of the last call has no capacity: no column, None or ""
NoCapacity == call.row.capacity.kind \in {"absent", "None", "empty"}

\* C18: an update of a functional object whose capacity is real stores as
\* capacity the stored value or the integer of the row, never a generated
\* one; when the row has no capacity, capacity and is_capacity_real stay as
\* they were.
RealCapacityKept ==
    (call.op = "update" /\ call.before.is_capacity_real) =>
        /\ stored.capacity \in
              {call.before.capacity} \cup
              (IF NoCapacity THEN {} ELSE {call.row.capacity.v})
        /\ NoCapacity =>
              /\ stored.capacity = call.before.capacity
              /\ stored.is_capacity_real = call.before.is_capacity_real

\* C18 witness: an object with real capacity was updated from a table
\* without capacity column, and the update wrote another column.
RealCapacityKeptWitness ==
    /\ call.op = "update" /\ call.before.is_capacity_real
    /\ ~CapacityInRow(call.row)
    /\ stored.opening_hours # call.before.opening_hours
    /\ stored.is_capacity_real

\* the columns whose new value differs from the stored one and is neither
\* None nor "", without capacity and is_capacity_real when the stored capacity
\* is real and the row has no capacity
Expected ==
    { col \in Range(Columns) :
        /\ CASE col = "capacity" ->
                  \/ IsInt(call.row.capacity) /\ call.row.capacity.v # call.before.capacity
                  \/ call.row.capacity.kind = "text"
             [] col = "is_capacity_real" ->
                  call.before.is_capacity_real # CapacityInRow(call.row)
             [] col = "name" -> FALSE
             [] OTHER -> call.row[col] \notin {call.before[col], None, ""}
        /\ (call.before.is_capacity_real /\ NoCapacity) =>
              col \notin {"capacity", "is_capacity_real"} }

\* C19: update_object writes exactly the columns whose new value differs
\* from the stored one and is neither None nor "", and updated_at; with a
\* real stored capacity and no capacity in the row only capacity and
\* is_capacity_real are left out.
DifferentialUpdate ==
    call.op = "update" =>
        /\ Range(call.change) = Expected \cup {"updated_at"}
        /\ \A col \in Expected : stored[col] = NewValue(col, call.row, stored.name)

\* C20: insert_object stores is_capacity_real = TRUE and the row's value as
\* capacity exactly when the capacity cell of the row is an integer;
\* otherwise is_capacity_real = FALSE and capacity_min <= capacity <= capacity_max.
InsertCapacityRule ==
    call.op = "insert" =>
        /\ stored.is_capacity_real = IsInt(call.row.capacity)
        /\ IsInt(call.row.capacity) => stored.capacity = call.row.capacity.v
        /\ ~IsInt(call.row.capacity) =>
              /\ ServiceCapacity.capacity_min <= stored.capacity
              /\ stored.capacity <= ServiceCapacity.capacity_max

\* C20 witness: an object inserted from a row whose capacity cell is None
\* got the largest capacity of the service type's range.
InsertCapacityWitness ==
    /\ call.op = "insert" /\ call.row.capacity.kind = "None"
    /\ ~stored.is_capacity_real
    /\ stored.capacity = ServiceCapacity.capacity_max

\* C21: a batch that no interrupt stopped and that got past the two lookups
\* has ended with every row processed once, in input order, and in commit
\* mode with no write of the batch left uncommitted.
Completion ==
    (pc \in {"done", "crashed"} /\ hist.end \notin {"interrupted", "aborted"}) =>
        /\ k = NRows /\ Len(objects) = NRows
        /\ \A r \in 1..NRows : results[r].tag # ""
        /\ cfg.commit => tx.db.dirty = {} /\ tx.committed = tx.db

\* C22: without the commit flag add_objects never commits and the connection
\* never has a savepoint: the committed database stays as it was at the start.
DryRunNeverCommits ==
    ~cfg.commit => tx.committed = hist.db0 /\ tx.savepoint = <<>>

\* C22 witness: a dry run has completed after a checkpoint row and an insert
\* whose writes are in the working database only.
DryRunWitness ==
    /\ ~cfg.commit /\ pc = "done" /\ hist.end = "completed"
    /\ results[NRows].tag \in Inserted
    /\ functional_ids[NRows] >= 0
    /\ tx.db # hist.db0
    /\ tx.committed = hist.db0

\* C23: for every SQLType, cast of None, of the empty string and of NaN
\* returns None and raises nothing.
NullRule ==
    (call.op = "cast" /\ call.value \in {PyNone, V("str", ""), V("float", "nan")}) =>
        call.out = [exc |-> "", ret |-> PyNone]

\* C23 witness: INT.cast(NaN) returned None.
NullRuleWitness ==
    /\ call.op = "cast" /\ call.type = "INT" /\ call.value = V("float", "nan")
    /\ call.out.ret = PyNone

\* C24: for every member t of SQLType, from_name(t.sql_name) raises nothing
\* and returns t.
TypeNameRoundTrip ==
    call.op = "from_name" =>
        \A t \in SQLType : call.name = sql_name(t) => call.out = [exc |-> "", ret |-> t]

\* the value is neither None nor the empty string nor NaN
NotNull(value) == value \notin {PyNone, V("str", ""), V("float", "nan")}

\* C25: BOOLEAN.cast of a value that is neither null nor empty returns False
\* for a falsy token (compared without case) and True for every other value,
\* a str or not.
BooleanCoercion ==
    (call.op = "cast" /\ call.type = "BOOLEAN" /\ NotNull(call.value)) =>
        call.out = [exc |-> "",
                    ret |-> V("bool", IF call.value.kind = "str" /\ Lower(call.value.s) \in FalsyTokens
                                      THEN "False" ELSE "True")]

\* the raw value is well-formed for the type
WellFormed(type, value) ==
    CASE type \in {"INT", "SMALLINT", "DOUBLE"} ->
            \/ value.kind \in {"int", "float"}
            \/ value.kind = "str" /\ value.s \in {"12", "1.5", "0"}
      [] type = "BOOLEAN" -> value.kind \in {"str", "bool"}
      [] type = "VARCHAR" -> value.kind = "str"
      [] type = "JSONB" -> TRUE
      [] type = "TIMESTAMP" -> value.kind = "struct_time"

\* the Python type of a value of the SQL type
TargetKind(type) ==
    CASE type \in {"INT", "SMALLINT"} -> "int"
      [] type = "DOUBLE" -> "float"
      [] type = "BOOLEAN" -> "bool"
      [] OTHER -> "str"

\* C26: cast of a value that is not null and is well-formed for the type
\* returns a value of the target type, not None; VARCHAR.cast of a non-empty
\* string returns the string.
TypedResult ==
    (call.op = "cast" /\ NotNull(call.value) /\ WellFormed(call.type, call.value)) =>
        /\ call.out.exc = ""
        /\ call.out.ret.kind = TargetKind(call.type)
        /\ call.type = "VARCHAR" => call.out.ret = call.value

\* C27: every field of the mapping holds the argument passed for the
\* parameter of its name, with "" and "-" turned into None; no field is ""
\* or "-"; the constructor applied to the fields of its result returns the
\* same mapping.
MappingNormalization ==
    call.op = "init_insertion_mapping" =>
        /\ \A n \in 1..Len(Params) :
              call.out[Params[n]] = (IF call.args[n] \in {"", "-"} THEN None ELSE call.args[n])
        /\ \A n \in 1..Len(Slots) : call.out[Slots[n]] \notin {"", "-"}
        /\ call.twice = call.out

\* C27 witness: the osm_id argument "id" and the capacity argument "-" ended
\* in the fields osm_id and capacity.
MappingWitness ==
    /\ call.op = "init_insertion_mapping"
    /\ \E n \in 1..Len(Params) : Params[n] = "osm_id" /\ call.args[n] = "id"
    /\ \E n \in 1..Len(Params) : Params[n] = "capacity" /\ call.args[n] = "-"
    /\ call.out.osm_id = "id"
    /\ call.out.capacity = None

\* the address without the longest configured prefix it starts with
WithoutLongest(addr) ==
    LET matching == { n \in 1..Len(cfg.address_prefixes) : StartsWith(addr, cfg.address_prefixes[n]) }
        n == CHOOSE x \in matching :
                 \A y \in matching : Len(cfg.address_prefixes[y]) <= Len(cfg.address_prefixes[x])
    IN  SubSeq(addr, Len(cfg.address_prefixes[n]) + 1, Len(addr))

\* C28: for a building-based service type, a row (coordinates valid) whose
\* address starts with a configured prefix goes on to its lookups with the
\* address without the longest such prefix, in whatever order the prefixes
\* were given.
LongestPrefixWins ==
    (/\ pc \in {"upd", "ins", "crashed"} /\ hist.exc \in {"", "TypeError"}
     /\ ServiceType(cfg.service_type).is_building /\ cfg.addrCol
     /\ Row.pt # 0 /\ HasPrefix(Row.addr))
    => /\ pc # "crashed"
       /\ loc.address = WithoutLongest(Row.addr)

\* C29: every functional object the batch inserted or updated, and the
\* container of the row in progress, is a physical object of the target city
\* that has a building exactly when the service type is building-based.
ContainerKind ==
    /\ \A f \in tx.db.fos :
          (f.id > Cardinality(InitFOs) \/ f.updated_at > 0) =>
              \E p \in tx.db.phys :
                  /\ p.id = f.phys
                  /\ p.city = CityId(cfg.city_name)
                  /\ p.build = ServiceType(cfg.service_type).is_building
    /\ pc \in {"upd", "ins"} =>
          \E p \in tx.db.phys :
              /\ p.id = loc.phys_id
              /\ p.city = CityId(cfg.city_name)
              /\ p.build = ServiceType(cfg.service_type).is_building

\* C29 witness: a building-based batch inserted a functional object into a
\* building found by geometry and another into a building it created.
ContainerKindWitness ==
    /\ ServiceType(cfg.service_type).is_building
    /\ pc = "top" /\ k = NRows
    /\ \E r, q \in 1..NRows :
          /\ results[r].tag = "by_geometry" /\ functional_ids[r] > Cardinality(InitFOs)
          /\ results[q].tag = "as_point" /\ functional_ids[q] > Cardinality(InitFOs)

\* C30: when a committing batch has returned, every physical object it added
\* to the committed database belongs to a row with outcome inserted-as-point
\* and functional_obj_id >= 0, and no physical object of the start is gone.
NewContainerFallback ==
    (pc = "done" /\ cfg.commit) =>
        /\ \A p \in hist.db0.phys : p \in tx.committed.phys
        /\ \A p \in tx.committed.phys :
              p \notin hist.db0.phys =>
                  \E r \in 1..NRows :
                      /\ results[r] = [tag |-> "as_point", phys |-> p.id]
                      /\ functional_ids[r] >= 0

\* C31: when a row whose geometry is no point is about to be inserted into a
\* container found by geometry, that container's stored geometry is no bare
\* point any more (it has been replaced by the row's geometry), and every
\* other physical object of the start keeps its geometry and place.
GeometryUpgrade ==
    (pc = "ins" /\ results[i + 1].tag = "by_geometry" /\ Row.geom # "ST_Point") =>
        /\ \E p \in tx.db.phys : p.id = loc.phys_id /\ p.geometry = Row.geom
        /\ \A q \in hist.db0.phys : q.id # loc.phys_id => q \in tx.db.phys

\* the row supplies a value for the column: it is in the table, not null, not empty
Supplied(cell) == cell \notin {Absent, None, ""}

Keys(doc) == { kv[1] : kv \in doc }

\* C32: update_object removes no key of the stored properties document; after
\* it each key the row supplies has the row's value and every other stored key
\* its stored value, and the document is not written when the document built
\* from the row equals the stored one.
PropertiesMerge ==
    call.op = "update" =>
        LET supplied == { m \in cfg.properties_mapping : Supplied(call.row[m[2]]) }
        IN  /\ Keys(call.before.properties) \subseteq Keys(stored.properties)
            /\ \A m \in supplied : <<m[1], call.row[m[2]]>> \in stored.properties
            /\ \A kv \in call.before.properties :
                  kv[1] \notin { m[1] : m \in supplied } => kv \in stored.properties
            /\ \A kv, w \in stored.properties : kv[1] = w[1] => kv = w
            /\ Keys(stored.properties) \subseteq
                  Keys(call.before.properties) \cup { m[1] : m \in supplied }
            /\ call.before.properties = { <<m[1], call.row[m[2]]>> : m \in supplied } =>
                  ~call.properties_written

\* C32 witness: an update whose row gives a new value for one stored key and
\* no value for another stored key, which is kept.
PropertiesMergeWitness ==
    /\ call.op = "update" /\ call.properties_written
    /\ <<"p", "x">> \in call.before.properties /\ <<"q", "x">> \in call.before.properties
    /\ call.row.colp = "y" /\ call.row.colq = Absent
    /\ stored.properties = { <<"p", "y">>, <<"q", "x">> }

\* the row gives no name: no name column, a null cell or an empty one
Unnamed(row) == row.name \in {Absent, None, ""}

\* C33: the name of the de-duplication lookup and of every functional object
\* of the database is never absent, null or empty; for a row without a name it
\* is the default built from the service type, so of two unnamed rows in
\* succession that resolve to the same container the first is inserted and
\* the second updates the object the first inserted.
NameDefault ==
    /\ pc \in {"ins", "upd"} =>
          /\ loc.name \notin {Absent, None, ""}
          /\ Unnamed(Row) => loc.name = "(" \o cfg.service_type \o " without a name)"
    /\ \A f \in tx.db.fos : f.name \notin {Absent, None, ""}
    /\ \A r \in 1..(NRows - 1) :
          (/\ k >= r + 1
           /\ Unnamed(objects[r]) /\ Unnamed(objects[r + 1])
           /\ results[r].tag \in Inserted /\ functional_ids[r] >= 0
           /\ results[r + 1].tag \in Inserted \cup {"updated"}
           /\ results[r + 1].phys = results[r].phys)
          => /\ results[r + 1].tag = "updated"
             /\ functional_ids[r + 1] = functional_ids[r]

\* C33 witness: a row with a null name was inserted into a new container and
\* the next row, with an empty name, updated the same functional object.
NameDefaultWitness ==
    /\ pc = "done" /\ hist.end = "completed"
    /\ objects[NRows - 1].name = None /\ objects[NRows].name = ""
    /\ results[NRows - 1].tag = "as_point" /\ results[NRows].tag = "updated"
    /\ functional_ids[NRows] = functional_ids[NRows - 1]
    /\ \E f \in tx.db.fos :
          /\ f.id = functional_ids[NRows]
          /\ f.name = "(" \o cfg.service_type \o " without a name)"

\* C34: in commit mode the rollback point exists in the current transaction
\* wherever a row may be rolled back to it (while a row is matched and while
\* insert_object or update_object runs), and when a row starts right after a
\* periodic commit the rollback point is the committed state itself.
RollbackPointExists ==
    cfg.commit =>
        /\ pc \in {"row", "ins", "upd"} => tx.savepoint # <<>>
        /\ (pc = "row" /\ i % cfg.log_n = 0) =>
              /\ tx.db = tx.committed
              /\ tx.savepoint = <<tx.committed>>

\* C34 witness: in commit mode, after a periodic commit at the last row, that
\* row failed and was rolled back to the rollback point.
RollbackPointWitness ==
    /\ cfg.commit /\ pc = "top" /\ k = NRows /\ (NRows - 1) % cfg.log_n = 0
    /\ results[NRows].tag \in {"skip_geometry", "skip_error"}
    /\ results[1].tag \in Inserted
    /\ tx.savepoint # <<>> /\ tx.db = tx.savepoint[1]

\* C35: in commit mode, right after a row failed and was rolled back, none of
\* that row's writes is left (no new physical object without a functional
\* object), and every earlier row still reported as inserted or updated has
\* its functional object in the database, in its container.
RowGranularRollback ==
    (/\ cfg.commit /\ pc = "top" /\ k >= 1
     /\ results[k].tag \in {"skip_error", "skip_geometry"})
    => /\ k \notin tx.db.dirty
       /\ \A p \in tx.db.phys : p.new => \E f \in tx.db.fos : f.phys = p.id
       /\ \A r \in 1..(k - 1) :
             results[r].tag \in Inserted \cup {"updated"} =>
                 \E f \in tx.db.fos :
                     /\ f.id = functional_ids[r]
                     /\ f.phys = results[r].phys
                     /\ results[r].tag = "updated" => f.updated_at >= r

\* C35 witness: in one checkpoint window a row was inserted into a container
\* found by geometry, the next row created a container and failed in
\* insert_object; the container is gone, the first row's object is there.
RowGranularWitness ==
    /\ cfg.commit /\ pc = "top"
    /\ \E r \in 1..(NRows - 1) :
          /\ k = r + 1 /\ r % cfg.log_n # 0
          /\ results[r].tag = "by_geometry" /\ results[r + 1].tag = "skip_error"
          /\ seqs.phys = Cardinality(InitPhys) + 1
          /\ tx.db.phys = InitPhys
          /\ \E f \in tx.db.fos : f.id = functional_ids[r] /\ f.phys = results[r].phys

\* C36: at the end of every loop iteration and when the batch completes, the
\* five counters add up to the number of rows processed so far.
CounterPartition ==
    (pc = "top" \/ (pc = "done" /\ hist.end = "completed")) =>
        cnt.added_as_points + cnt.added_to_address + cnt.added_to_geom
            + cnt.present + cnt.skipped = k

\* C37: a call that leaves is_capacity_real true on a functional object whose
\* flag was not true before leaves as its capacity the value its row supplies
\* in the capacity column; a row with a null or empty capacity cell never
\* turns the flag to true.
CapacityTruthful ==
    (/\ call.op \in {"insert", "update"}
     /\ stored.is_capacity_real
     /\ call.op = "update" => ~call.before.is_capacity_real)
    => /\ call.row.capacity.kind \in {"int", "text"}
       /\ stored.capacity = call.row.capacity.v

\* the outcome classification of a result
Class(res) == IF res.tag \in SkipTags THEN "skipped" ELSE res.tag

\* C38: when a dry run and then a committing run have gone through the same
\* table from the same database, the calls of insert_object and update_object
\* succeeding in both and every row lying where the database at the start
\* has no container of the city, each row has the same outcome classification
\* in both runs.
OutcomeEquivalence ==
    (/\ run = 2 /\ pc = "done" /\ hist.end = "completed" /\ cfg.commit
     /\ hist.db0 = InitDB
     /\ \A r \in 1..Shape0 :
           /\ objects[r].pt \in {0, 2}
           /\ results[r].tag # "skip_error" /\ prev.results[r].tag # "skip_error")
    => \A r \in 1..Shape0 : Class(results[r]) = Class(prev.results[r])

\* C39: refresh_materialized_views refreshes, once each and in order, the
\* views of the list it is given, the three default views when the argument is
\* not given, and nothing when the argument is None.
RefreshViews ==
    call.op = "refresh_materialized_views" =>
        call.executed =
            CASE call.arg.kind = "None" -> <<>>
              [] call.arg.kind = "Ellipsis" -> <<"all_buildings", "all_services", "cities_statistics">>
              [] OTHER -> call.arg.names

====
